---- MODULE Spec2Model ----
(***************************************************************************)
(* Model of the pallet-packing placement engine                            *)
(* (src/packing/packing_engine.py, class PackingEngine) together with the  *)
(* packing space it drives (env.space: height map + committed boxes).      *)
(*                                                                         *)
(* Units.  Every length of the model is an integer number of HALF units:   *)
(* the value 2 is the real length 1.0, the value 3 is 1.5.  A length is    *)
(* integral (float.is_integer()) iff it is even.  The height map is a grid *)
(* of half-unit cells.  float() and int() of the source are applied only   *)
(* to values they preserve (int() only after is_integer()), so they do not *)
(* change a length of the model.                                           *)
(***************************************************************************)
EXTENDS Integers, Sequences, FiniteSets, TLC

VARIABLES
    session,            \* PackingSession row and its BoxData rows (by order)
    PACKING_AVAILABLE,  \* module flag: the pct_envs imports succeeded
    pc,                 \* position of run_simulation
    env,                \* self.env is not None
    is_discrete,        \* self.is_discrete
    heightMap,          \* env.space height map  (cell -> height)
    space_boxes,        \* env.space.boxes       (committed boxes)
    box_results,        \* local box_results of the running algorithm
    packing_steps,      \* local packing_steps
    box_index,          \* local box_index
    done,               \* local done
    results,            \* the value run_simulation returned
    stored,             \* the session's BoxData rows in the database
    faults,             \* number of faults injected so far
    hist,               \* history of the run (observations only)
    web,                \* web tier: is_completed per session, requests served,
                        \* the module global _virtual_display
    threads,            \* the background threads start_packing has started
    rng                 \* the state of the global numpy random generator

\* the engine run of one session
engvars == <<session, PACKING_AVAILABLE, pc, env, is_discrete, heightMap,
             space_boxes, box_results, packing_steps, box_index, done, results,
             stored, faults, hist>>

\* the web tier and what its threads share
webvars == <<web, threads, rng>>

vars == <<engvars, webvars>>

----------------------------------------------------------------------------
(* Bounds of the model *)

\* longest box sequence of a short session
MaxBoxes == 2
\* number of boxes of the long session beyond the iteration ceiling
ExtraBoxes == 1
\* faults (exceptions, failed commits) injected per run
MaxFaults == 1
\* faults are injected only while box_index is below this index
FaultWindow == 2
\* consecutive env.reset() calls after a finished episode
MaxResets == 2
\* start_packing requests served by the web tier
MaxRequests == 2
\* boxes of a session of the web tier
WebBoxes == 2
\* len(candidates) of a box in a run of the web tier
WebCandidates == 3

(* Program constants *)

\* min(len(boxes), 50)
MaxIterations == 50

----------------------------------------------------------------------------
(* Arithmetic helpers *)

Min(a, b) == IF a <= b THEN a ELSE b
Max(a, b) == IF a >= b THEN a ELSE b

MaxOver(S) == IF S = {} THEN 0 ELSE CHOOSE m \in S : \A n \in S : n <= m

\* sum(...) of a list, by halves
RECURSIVE SumSeq(_)
SumSeq(s) ==
    IF Len(s) = 0 THEN 0
    ELSE IF Len(s) = 1 THEN s[1]
    ELSE LET m == Len(s) \div 2
         IN  SumSeq(SubSeq(s, 1, m)) + SumSeq(SubSeq(s, m + 1, Len(s)))

\* np.sum of a height map over the grid w x l, column by column
SumFn(f, w, l) ==
    SumSeq([x \in 1..w |-> SumSeq([y \in 1..l |-> f[<<x - 1, y - 1>>]])])

\* float.is_integer() of a length given in half units
IsInteger(v) == v % 2 = 0

Volume(b) == b[1] * b[2] * b[3]

----------------------------------------------------------------------------
(* The sessions the engine is run on *)

UnitBox    == <<2, 2, 2>>     \* 1 x 1 x 1
HalfBox    == <<1, 2, 2>>     \* 0.5 x 1 x 1 (not integral)
WideBox    == <<4, 2, 2>>     \* 2 x 1 x 1 (fits the pallets only standing up)
ZeroBox    == <<0, 2, 2>>     \* a zero extent (invalid)

ValidBoxes == {UnitBox, HalfBox, WideBox}

RECURSIVE SeqsUpTo(_, _)
SeqsUpTo(S, n) ==
    IF n = 0 THEN {<<>>}
    ELSE LET prev == SeqsUpTo(S, n - 1)
         IN  prev \cup {Append(s, e) : s \in {p \in prev : Len(p) = n - 1}, e \in S}

\* 1 x 1 x 2 (integral) and 1.5 x 1 x 2 (not integral)
ValidPallets == {<<2, 2, 4>>, <<3, 2, 4>>}

Algorithms == {"corner_height", "random"}
RotationSettings == {1, 2}

MkSession(p, r, a, bs) ==
    [pallet_width |-> p[1], pallet_length |-> p[2], pallet_height |-> p[3],
     rotation_setting |-> r, algorithm |-> a, boxes |-> bs]

ShortSessions ==
    {MkSession(p, r, a, bs) : p \in ValidPallets, r \in RotationSettings,
                              a \in Algorithms, bs \in SeqsUpTo(ValidBoxes, MaxBoxes)}

\* more boxes than the iteration ceiling, in a pallet 1 x 1 x (n + 1) that
\* has room for all of them
LongSessions ==
    LET n == MaxIterations + ExtraBoxes
    IN  {MkSession(<<2, 2, 2 * (n + 1)>>, 1, a, [i \in 1..n |-> UnitBox]) :
            a \in Algorithms}

\* configurations the forms reject: a box with a zero extent, a pallet of
\* volume 0.5
InvalidSessions ==
    {MkSession(<<2, 2, 4>>, 1, a, bs) :
        a \in Algorithms, bs \in {<<ZeroBox>>, <<UnitBox, ZeroBox>>}}
    \cup
    {MkSession(<<1, 2, 2>>, 1, a, <<HalfBox>>) : a \in Algorithms}

\* four boxes, so that the fallback result marks two of them packed
FourBoxSessions ==
    {MkSession(<<2, 2, 4>>, 1, a, bs) :
        a \in Algorithms,
        bs \in {<<WideBox, UnitBox, UnitBox, UnitBox>>,
                <<UnitBox, WideBox, UnitBox, UnitBox>>}}

\* the specification's example scenario: container (10, 10, 10), boxes
\* (2,2,2), (3,3,3), (11,1,1) in that order, corner_height, no rotation
ExampleSession ==
    MkSession(<<20, 20, 20>>, 1, "corner_height",
              <<<<4, 4, 4>>, <<6, 6, 6>>, <<22, 2, 2>>>>)

Sessions ==
    ShortSessions \cup LongSessions \cup FourBoxSessions \cup InvalidSessions
    \cup {ExampleSession}

\* forms.py: pallet volume >= 1.0; CSV rows: every extent > 0
\* (8 half-unit cubes are one unit cube)
ValidConfiguration(s) ==
    /\ s.pallet_width * s.pallet_length * s.pallet_height >= 8
    /\ \A i \in 1..Len(s.boxes) : \A k \in 1..3 : s.boxes[i][k] > 0

\* BoxData.id of the box at 0-based position i of order_by('order')
BoxId(i) == i + 1

----------------------------------------------------------------------------
(* setup_environment *)

PalletIsInteger(s) ==
    /\ IsInteger(s.pallet_width)
    /\ IsInteger(s.pallet_length)
    /\ IsInteger(s.pallet_height)

\* item_set: the boxes' extents, or the default set when there is no box
ItemSet(s) ==
    IF s.boxes = <<>> THEN <<<<2, 2, 2>>, <<4, 4, 4>>, <<6, 6, 6>>>>
    ELSE s.boxes

ItemsAreInteger(s) ==
    \A i \in 1..Len(ItemSet(s)) : \A k \in 1..3 : IsInteger(ItemSet(s)[i][k])

IsDiscrete(s) == PalletIsInteger(s) /\ ItemsAreInteger(s)

\* env.bin_size = container_size: ints iff the pallet was integral
BinSizeIsInt(s) == PalletIsInteger(s)

----------------------------------------------------------------------------
(* The packing space: env.space.  Its code is not part of the sources; it *)
(* is modelled from the specification's section 4.1.                      *)

Cells(s) == (0 .. s.pallet_width - 1) \X (0 .. s.pallet_length - 1)

\* reset(): all-zero height map
ZeroMap(s) == [c \in Cells(s) |-> 0]

\* variant of reset: the height map is cleared, the committed boxes are kept
resetKeepingBoxes(hm, boxes, s) == [heightMap |-> ZeroMap(s), boxes |-> boxes]

\* reset(): clears the height map to all-zero and the committed boxes,
\* whatever the space held
reset(hm, boxes, s) == [heightMap |-> ZeroMap(s), boxes |-> <<>>]

\* cells under a box of extents b whose lower corner is at (lx, ly)
Footprint(s, b, lx, ly) ==
    (Max(lx, 0) .. Min(lx + b[1], s.pallet_width) - 1)
        \X (Max(ly, 0) .. Min(ly + b[2], s.pallet_length) - 1)

\* the box's bottom rests at the maximum height under its footprint
RestHeight(hm, s, b, lx, ly) == MaxOver({hm[c] : c \in Footprint(s, b, lx, ly)})

\* inside the container on x/y and not above the height limit
Feasible(hm, s, b, lx, ly) ==
    /\ lx >= 0 /\ ly >= 0
    /\ lx + b[1] <= s.pallet_width
    /\ ly + b[2] <= s.pallet_length
    /\ RestHeight(hm, s, b, lx, ly) + b[3] <= s.pallet_height

\* variant of MapAfter: the footprint cells get the box's own height, as if
\* the box stood on the floor
MapAfterFromFloor(hm, s, b, lx, ly) ==
    [c \in Cells(s) |->
        IF /\ lx <= c[1] /\ c[1] < lx + b[1]
           /\ ly <= c[2] /\ c[2] < ly + b[2]
        THEN b[3] ELSE hm[c]]

\* the height map after the box has been put at (lx, ly)
MapAfter(hm, s, b, lx, ly) ==
    LET top == RestHeight(hm, s, b, lx, ly) + b[3]
    IN  [c \in Cells(s) |->
            IF /\ lx <= c[1] /\ c[1] < lx + b[1]
               /\ ly <= c[2] /\ c[2] < ly + b[2]
            THEN Max(hm[c], top) ELSE hm[c]]

\* drop_box_virtual: (feasible, resulting height map); the space is not touched
drop_box_virtual(hm, s, b, lx, ly) ==
    IF Feasible(hm, s, b, lx, ly)
    THEN [feasible |-> TRUE,  heightMap |-> MapAfter(hm, s, b, lx, ly)]
    ELSE [feasible |-> FALSE, heightMap |-> hm]

\* the Box object a commit appends to space.boxes
PlacedBox(hm, s, b, lx, ly) ==
    [x |-> b[1], y |-> b[2], z |-> b[3],
     lx |-> lx, ly |-> ly, lz |-> RestHeight(hm, s, b, lx, ly)]

\* get_ratio(): committed volume / container volume, as a fraction
get_ratio(boxes, s) ==
    [num |-> SumSeq([i \in 1..Len(boxes) |-> boxes[i].x * boxes[i].y * boxes[i].z]),
     den |-> s.pallet_width * s.pallet_length * s.pallet_height]

\* env.orientation: 6 under full rotation, the identity alone otherwise
Orientation(s) == IF s.rotation_setting = 2 THEN 6 ELSE 1

\* the specification's orientation list (section 4.3), k = 0..5
SpecOrient(b, k) ==
    CASE k = 0 -> <<b[1], b[2], b[3]>>
      [] k = 1 -> <<b[2], b[1], b[3]>>
      [] k = 2 -> <<b[3], b[1], b[2]>>
      [] k = 3 -> <<b[3], b[2], b[1]>>
      [] k = 4 -> <<b[1], b[3], b[2]>>
      [] k = 5 -> <<b[2], b[3], b[1]>>

\* corners of the committed boxes projected on the footprint, the origin first
Corners(boxes) ==
    [j \in 1 .. (1 + 4 * Len(boxes)) |->
        IF j = 1 THEN <<0, 0>>
        ELSE LET b == boxes[((j - 2) \div 4) + 1]
                 k == (j - 2) % 4
             IN  CASE k = 0 -> <<b.lx, b.ly>>
                   [] k = 1 -> <<b.lx + b.x, b.ly>>
                   [] k = 2 -> <<b.lx, b.ly + b.y>>
                   [] k = 3 -> <<b.lx + b.x, b.ly + b.y>>]

\* env.corner_positions(): 6-tuples (xs, ys, zs, xe, ye, ze), corners first,
\* then orientations of the next box
corner_positions(hm, boxes, s, nb) ==
    LET cs == Corners(boxes)
        no == Orientation(s)
    IN  [j \in 1 .. (Len(cs) * no) |->
            LET c  == cs[((j - 1) \div no) + 1]
                d  == SpecOrient(nb, (j - 1) % no)
                zs == RestHeight(hm, s, d, c[1], c[2])
            IN  <<c[1], c[2], zs, c[1] + d[1], c[2] + d[2], zs + d[3]>>]

----------------------------------------------------------------------------
(* _create_fallback_results *)

Unpacked(i, s) ==
    [id |-> BoxId(i), is_packed |-> FALSE, position |-> <<>>,
     dimensions |-> s.boxes[i + 1]]

\* variant of FallbackPackedCount: half of the boxes, without the minimum of one
FallbackPackedCountHalf(s) == Len(s.boxes) \div 2

\* packed_count
FallbackPackedCount(s) == Min(Len(s.boxes), Max(1, Len(s.boxes) \div 2))

\* position (i % 3, i // 3, 0) in units
FallbackPosition(i) == <<2 * (i % 3), 2 * (i \div 3), 0>>

FallbackUtilization(s) ==
    LET total  == SumSeq([i \in 1..FallbackPackedCount(s) |-> Volume(s.boxes[i])])
        pallet == s.pallet_width * s.pallet_length * s.pallet_height
    IN  IF pallet > 0
        THEN (IF total >= pallet THEN [num |-> 1, den |-> 1]
                                 ELSE [num |-> total, den |-> pallet])
        ELSE [num |-> 0, den |-> 1]

FallbackResults(s) ==
    [kind |-> "fallback",
     utilization_rate |-> FallbackUtilization(s),
     packed_boxes_count |-> FallbackPackedCount(s),
     boxes |-> [j \in 1..Len(s.boxes) |->
                  IF j - 1 < FallbackPackedCount(s)
                  THEN [id |-> BoxId(j - 1), is_packed |-> TRUE,
                        position |-> FallbackPosition(j - 1),
                        dimensions |-> s.boxes[j]]
                  ELSE Unpacked(j - 1, s)],
     packing_steps |-> <<>>]

NoResults ==
    [kind |-> "none", utilization_rate |-> [num |-> 0, den |-> 1],
     packed_boxes_count |-> 0, boxes |-> <<>>, packing_steps |-> <<>>]

----------------------------------------------------------------------------
(* The placement heuristics *)

\* the next box the environment offers: an item of the item_set it was built
\* with (no box sequence is handed to it: data_name=None, load_test_data=False)
NextBoxChoices(s) == {ItemSet(s)[i] : i \in 1..Len(ItemSet(s))}

NoPlacement == [found |-> FALSE, score |-> 0, dims |-> <<0, 0, 0>>, lx |-> 0, ly |-> 0]

\* xs + ys + 10 * np.sum(heightMap), times 8: xs, ys are in half units (x 2)
\* and the sum runs over 4 half-unit cells per unit cell of heights in half
\* units (x 8)
Score(xs, ys, hm, s) ==
    4 * (xs + ys) + 10 * SumFn(hm, s.pallet_width, s.pallet_length)

\* one step of the scan of corner_points: position i of the list, its
\* virtual drop and, if that is feasible, its score
Scanned(cps, i, hm, s) ==
    LET p  == cps[i]
        d  == <<p[4] - p[1], p[5] - p[2], p[6] - p[3]>>
        v  == drop_box_virtual(hm, s, d, p[1], p[2])
    IN  [feasible |-> v.feasible,
         score |-> IF v.feasible THEN Score(p[1], p[2], v.heightMap, s) ELSE 0,
         dims |-> d, lx |-> p[1], ly |-> p[2]]

\* variant of ScanStep: `score <= best_score`, the last of equal scores wins
ScanStepLast(best, ev) ==
    IF ev.feasible /\ (~best.found \/ ev.score <= best.score)
    THEN [found |-> TRUE, score |-> ev.score, dims |-> ev.dims,
          lx |-> ev.lx, ly |-> ev.ly]
    ELSE best

\* the body of "for position in corner_points": skip an infeasible position;
\* `if score < best_score` replaces the best (best.found stands for
\* best_score = 1e10, which no score of the model reaches)
ScanStep(best, ev) ==
    IF ev.feasible /\ (~best.found \/ ev.score < best.score)
    THEN [found |-> TRUE, score |-> ev.score, dims |-> ev.dims,
          lx |-> ev.lx, ly |-> ev.ly]
    ELSE best

\* the scan of positions lo..hi of corner_points in list order, continuing
\* from `best`: the first half is scanned to its end, and the second half
\* continues from the best the first half left
RECURSIVE ScanRange(_, _, _, _, _, _)
ScanRange(best, cps, hm, s, lo, hi) ==
    IF lo > hi THEN best
    ELSE IF lo = hi THEN ScanStep(best, Scanned(cps, lo, hm, s))
    ELSE LET mid == (lo + hi) \div 2
         IN  CHOOSE r \in {ScanRange(b, cps, hm, s, mid + 1, hi) :
                              b \in {ScanRange(best, cps, hm, s, lo, mid)}} : TRUE

\* the scan of all of corner_points, from best_score = 1e10 and
\* best_action = []
BestFrom(cps, hm, s) == ScanRange(NoPlacement, cps, hm, s, 1, Len(cps))

CornerHeightChoice(hm, boxes, s, nb) ==
    BestFrom(corner_positions(hm, boxes, s, nb), hm, s)

\* the extents the random search gives to rotation index rot:
\*   rot 1: y, x, z = next_box     rot 2: z, x, y = next_box   ...
Rot(nb, rot) ==
    CASE rot = 0 -> <<nb[1], nb[2], nb[3]>>
      [] rot = 1 -> <<nb[2], nb[1], nb[3]>>
      [] rot = 2 -> <<nb[2], nb[3], nb[1]>>
      [] rot = 3 -> <<nb[3], nb[2], nb[1]>>
      [] rot = 4 -> <<nb[1], nb[3], nb[2]>>
      [] rot = 5 -> <<nb[3], nb[1], nb[2]>>

\* int(v) of the real value n / 2: truncation towards zero
IntOfHalves(n) == IF n >= 0 THEN n \div 2 ELSE -((-n) \div 2)

Candidate(d, lx, ly) == [found |-> TRUE, score |-> 0, dims |-> d, lx |-> lx, ly |-> ly]

\* exhaustive search: lx in range(int(bin_size[0] - next_box[0] + 1)), ...
DiscreteCandidates(hm, s, nb) ==
    {Candidate(Rot(nb, rot), 2 * kx, 2 * ky) :
        <<kx, ky, rot>> \in
          {t \in (0 .. IntOfHalves(s.pallet_width - nb[1] + 2) - 1)
                 \X (0 .. IntOfHalves(s.pallet_length - nb[2] + 2) - 1)
                 \X (0 .. Orientation(s) - 1) :
              drop_box_virtual(hm, s, Rot(nb, t[3]), 2 * t[1], 2 * t[2]).feasible}}

\* sampling: the positions np.random.uniform(0, max_lx) can draw for a rotation
\* (none when max_lx <= 0 or max_ly <= 0), on the half-unit grid
SamplePoints(s, nb, rot) ==
    LET d      == Rot(nb, rot)
        max_lx == Max(0, s.pallet_width - d[1])
        max_ly == Max(0, s.pallet_length - d[2])
    IN  IF max_lx <= 0 \/ max_ly <= 0 THEN {}
        ELSE (0 .. max_lx - 1) \X (0 .. max_ly - 1)

ContinuousCandidates(hm, s, nb) ==
    {Candidate(Rot(nb, t[1]), t[2][1], t[2][2]) :
        t \in {u \in (0 .. Orientation(s) - 1) \X ((0 .. s.pallet_width) \X (0 .. s.pallet_length)) :
                  /\ u[2] \in SamplePoints(s, nb, u[1])
                  /\ drop_box_virtual(hm, s, Rot(nb, u[1]), u[2][1], u[2][2]).feasible}}

\* every draw of every rotation can be infeasible
SamplesCanAllFail(hm, s, nb) ==
    \A rot \in 0 .. Orientation(s) - 1 :
        SamplePoints(s, nb, rot) # {} =>
            \E q \in SamplePoints(s, nb, rot) :
                ~drop_box_virtual(hm, s, Rot(nb, rot), q[1], q[2]).feasible

\* candidates[np.random.randint(0, len(candidates))], or no candidate
RandomChoices(hm, s, nb) ==
    IF BinSizeIsInt(s)
    THEN (IF DiscreteCandidates(hm, s, nb) = {} THEN {NoPlacement}
          ELSE DiscreteCandidates(hm, s, nb))
    ELSE ContinuousCandidates(hm, s, nb)
           \cup (IF SamplesCanAllFail(hm, s, nb) THEN {NoPlacement} ELSE {})

\* the mode of the search branch an iteration takes: run_simulation picks the
\* corner-height variant by self.is_discrete; the random search picks its
\* branch by the type of env.bin_size (is_continuous)
SearchMode(s, disc) ==
    IF s.algorithm = "random"
    THEN (IF BinSizeIsInt(s) THEN "discrete" ELSE "continuous")
    ELSE (IF disc THEN "discrete" ELSE "continuous")

Choices(hm, boxes, s, nb) ==
    IF s.algorithm = "random" THEN RandomChoices(hm, s, nb)
    ELSE {CornerHeightChoice(hm, boxes, s, nb)}

----------------------------------------------------------------------------
(* The virtual drops of one search and what they leave of the space *)

\* variant of SpaceAfterVirtualDrop: the probe writes the height map it
\* computed into the space
SpaceAfterVirtualDropWriting(hm, boxes, s, b, lx, ly) ==
    [heightMap |-> drop_box_virtual(hm, s, b, lx, ly).heightMap, boxes |-> boxes]

\* the space after drop_box_virtual(b, (lx, ly)): the probe computes its
\* answer on the side, the height map and the committed boxes are untouched
SpaceAfterVirtualDrop(hm, boxes, s, b, lx, ly) ==
    [heightMap |-> hm, boxes |-> boxes]

\* the virtual drops of the corner-height scan: one per entry of
\* corner_positions, in list order (n drops, the i-th is at[i])
CornerProbes(hm, boxes, s, nb) ==
    [n  |-> (1 + 4 * Len(boxes)) * Orientation(s),
     at |-> [i \in 1 .. (1 + 4 * Len(boxes)) * Orientation(s) |->
                LET p == corner_positions(hm, boxes, s, nb)[i]
                IN  <<<<p[4] - p[1], p[5] - p[2], p[6] - p[3]>>, p[1], p[2]>>]]

\* the virtual drops of the exhaustive search, in the order of its loops:
\* lx, then ly, then rot
DiscreteProbes(s, nb) ==
    LET nx == Max(0, IntOfHalves(s.pallet_width - nb[1] + 2))
        ny == Max(0, IntOfHalves(s.pallet_length - nb[2] + 2))
        no == Orientation(s)
    IN  [n  |-> nx * ny * no,
         at |-> [i \in 1 .. nx * ny * no |->
                    <<Rot(nb, (i - 1) % no),
                      2 * ((i - 1) \div (no * ny)),
                      2 * (((i - 1) \div no) % ny)>>]]

\* the virtual drops the sampling can make for rotation rot: one at each
\* position it can draw
RotProbes(s, nb, rot) ==
    LET d  == Rot(nb, rot)
        mx == Max(0, s.pallet_width - d[1])
        my == Max(0, s.pallet_length - d[2])
    IN  [i \in 1 .. mx * my |-> <<d, (i - 1) \div my, (i - 1) % my>>]

\* the virtual drops of the sampling search for the rotations it tries
ContinuousProbes(s, nb) ==
    LET all == IF Orientation(s) = 1 THEN RotProbes(s, nb, 0)
               ELSE RotProbes(s, nb, 0) \o RotProbes(s, nb, 1)
                    \o RotProbes(s, nb, 2) \o RotProbes(s, nb, 3)
                    \o RotProbes(s, nb, 4) \o RotProbes(s, nb, 5)
    IN  [n |-> Len(all), at |-> all]

\* the virtual drops of the search of one iteration
Probes(hm, boxes, s, nb) ==
    IF s.algorithm = "random"
    THEN (IF BinSizeIsInt(s) THEN DiscreteProbes(s, nb) ELSE ContinuousProbes(s, nb))
    ELSE CornerProbes(hm, boxes, s, nb)

\* the space after the virtual drops lo..hi of pr, made one after the other
\* (the first half, then the second half on what the first half left)
RECURSIVE VirtualDrops(_, _, _, _, _)
VirtualDrops(sp, pr, s, lo, hi) ==
    IF lo > hi THEN sp
    ELSE IF lo = hi
         THEN SpaceAfterVirtualDrop(sp.heightMap, sp.boxes, s,
                                    pr.at[lo][1], pr.at[lo][2], pr.at[lo][3])
    ELSE LET mid == (lo + hi) \div 2
         IN  CHOOSE r \in {VirtualDrops(b, pr, s, mid + 1, hi) :
                              b \in {VirtualDrops(sp, pr, s, lo, mid)}} : TRUE

\* the space a search leaves to the commit that follows it
ProbedSpace(hm, boxes, s, nb) ==
    LET pr == Probes(hm, boxes, s, nb)
    IN  VirtualDrops([heightMap |-> hm, boxes |-> boxes], pr, s, 1, pr.n)

----------------------------------------------------------------------------
(* run_simulation and the packing loop *)

\* variant of MaxIter: the ceiling of 50 is left out
MaxIterUncapped(s) == Len(s.boxes)

\* max_iterations
MaxIter(s) == Min(Len(s.boxes), MaxIterations)

\* variant of AfterException: the except branch does not advance box_index
AfterExceptionStuck(i) == i

\* box_index after the except branch of an iteration
AfterException(i) == i + 1

\* variant of DoneAfterNone: the loop goes on after an infeasible box
DoneAfterNoneUnset == FALSE

\* done after "No feasible placement found"
DoneAfterNone == TRUE

\* variant of EscapedResults: the outer except returns self.results as it is
EscapedResultsStale(s) == [NoResults EXCEPT !.kind = "search"]

\* what the outer except of the algorithm returns
EscapedResults(s) == FallbackResults(s)

PackedRecord(i, pb) ==
    [id |-> BoxId(i), is_packed |-> TRUE,
     position |-> <<pb.lx, pb.ly, pb.lz>>, dimensions |-> <<pb.x, pb.y, pb.z>>]

PackingStep(i, pb) ==
    [box_id |-> BoxId(i), position |-> <<pb.lx, pb.ly, pb.lz>>,
     dimensions |-> <<pb.x, pb.y, pb.z>>, step |-> i]

\* variant of FailedCommitOutcome: the box is recorded packed although
\* env.step reported failure
FailedCommitOutcomePacked(i, s, pb) == PackedRecord(i, pb)

\* the outcome recorded when env.step reports failure ("Box couldn't be
\* placed"): unpacked, no position, the box's own extents
FailedCommitOutcome(i, s, pb) == Unpacked(i, s)

\* the BoxData rows of a new session: not packed, no position
NewRows(s) ==
    [i \in 1..Len(s.boxes) |->
        [is_packed |-> FALSE, position |-> <<>>, dimensions |-> s.boxes[i]]]

\* the rows after the outcomes recs have been written back in list order:
\* the last outcome of a box decides is_packed, the last packed outcome of a
\* box decides its dimensions and position (an unpacked outcome leaves them)
RowsAfter(rows, recs) ==
    [i \in 1..Len(rows) |->
        LET mine   == {j \in 1..Len(recs) : recs[j].id = BoxId(i - 1)}
            packed == {j \in mine : recs[j].is_packed}
        IN  IF mine = {} THEN rows[i]
            ELSE [is_packed  |-> recs[MaxOver(mine)].is_packed,
                  position   |-> IF packed = {} THEN rows[i].position
                                 ELSE recs[MaxOver(packed)].position,
                  dimensions |-> IF packed = {} THEN rows[i].dimensions
                                 ELSE recs[MaxOver(packed)].dimensions]]

----------------------------------------------------------------------------
(* The web tier: start_packing, its background threads and what they share *)

\* ids of the sessions of the web tier
WebSessions == {1, 2}

\* session.is_completed of every session (the database row), the
\* start_packing requests served, the module global _virtual_display (FALSE:
\* None), the Display objects started so far, and the sessions whose results
\* page has been rendered / whose results request was redirected to progress
NewWeb ==
    [is_completed |-> [sid \in WebSessions |-> FALSE], requests |-> 0,
     virtual_display |-> FALSE, displays |-> 0,
     served |-> {}, redirected |-> {}]

\* the state of the global generator: the seed it was last seeded with and
\* the number of values drawn since.  A seed of _generate_color,
\* index * 2654435761 % 2**32, is identified by its index (the multiplier is
\* odd, so different indices give different seeds)
OsSeed == [src |-> "os", v |-> 0]
ColorSeed(index) == [src |-> "color", v |-> index]
Seeded(sd) == [seed |-> sd, n |-> 0]

\* np.random.randint(0, k) in generator state r: a value fixed by the state
randint(r, k) == ((IF r.seed.src = "os" THEN 1 ELSE 0) + r.seed.v + r.n) % k

\* the generator state after `draws` values have been drawn
Drawn(r, draws) == [r EXCEPT !.n = @ + draws]

\* Thread(target=run_packing_simulation, args=(session.id,)).  local is
\* is_completed of the thread's own PackingSession object.  alone is the
\* generator as it would be if only this thread used it, alone_choices the
\* choices the thread would then make (observations only)
NewThread(sid, r) ==
    [sid |-> sid, pc |-> "load", local |-> FALSE, k |-> 0, choices |-> <<>>,
     alone |-> r, alone_choices |-> <<>>]

InitHist ==
    [setup |-> "none", reset_calls |-> 0, escaped |-> FALSE, iterations |-> 0,
     attempted |-> {}, raised |-> {}, none_at |-> {}, commit_failed |-> {},
     branches |-> {}, run |-> 1, first |-> NoResults, resets |-> 0,
     in_order |-> TRUE]

\* no background thread is started: the engine is run on its own
NoWeb ==
    /\ web = NewWeb
    /\ threads = <<>>
    /\ rng = Seeded(OsSeed)

Init ==
    /\ session \in Sessions
    /\ PACKING_AVAILABLE \in BOOLEAN
    /\ NoWeb
    /\ pc = "start"
    /\ env = FALSE
    /\ is_discrete = TRUE
    /\ heightMap = <<>>
    /\ space_boxes = <<>>
    /\ box_results = <<>>
    /\ packing_steps = <<>>
    /\ box_index = 0
    /\ done = FALSE
    /\ results = NoResults
    /\ stored = NewRows(session)
    /\ faults = 0
    /\ hist = InitHist

\* run_simulation, first step: setup_environment; the fallback when it fails.
\* raise: the environment's or the viewer's constructor raises
SetupEnvironment ==
    /\ pc = "start"
    /\ \E raise \in BOOLEAN :
        IF ~PACKING_AVAILABLE
        THEN /\ results' = FallbackResults(session)
             /\ pc' = "done"
             /\ hist' = [hist EXCEPT !.setup = "failed"]
             /\ UNCHANGED <<env, is_discrete, heightMap, space_boxes>>
        ELSE /\ is_discrete' = IsDiscrete(session)
             /\ IF raise
                THEN /\ results' = FallbackResults(session)
                     /\ pc' = "done"
                     /\ hist' = [hist EXCEPT !.setup = "failed"]
                     /\ UNCHANGED <<env, heightMap, space_boxes>>
                ELSE /\ env' = TRUE
                     /\ heightMap' = ZeroMap(session)
                     /\ space_boxes' = <<>>
                     /\ pc' = "ready"
                     /\ hist' = [hist EXCEPT !.setup = "ok"]
                     /\ UNCHANGED results
    /\ UNCHANGED <<session, PACKING_AVAILABLE, box_results, packing_steps,
                   box_index, done, stored, faults>>
    /\ UNCHANGED webvars

\* the chosen algorithm up to its loop: env.reset() and the locals.
\* raise: env.reset() raises, which the algorithm's outer except catches
StartRun ==
    /\ pc = "ready"
    /\ \E raise \in BOOLEAN :
        IF raise
        THEN /\ results' = EscapedResults(session)
             /\ pc' = "done"
             /\ hist' = [hist EXCEPT !.escaped = TRUE]
             /\ UNCHANGED <<heightMap, space_boxes>>
        ELSE /\ heightMap' = reset(heightMap, space_boxes, session).heightMap
             /\ space_boxes' = reset(heightMap, space_boxes, session).boxes
             /\ pc' = "loop"
             /\ hist' = [hist EXCEPT !.reset_calls = @ + 1]
             /\ UNCHANGED results
    /\ box_results' = <<>>
    /\ packing_steps' = <<>>
    /\ box_index' = 0
    /\ done' = FALSE
    /\ UNCHANGED <<session, PACKING_AVAILABLE, env, is_discrete, stored, faults>>
    /\ UNCHANGED webvars

Exceptions == {"pre", "post_commit", "post_record"}

\* the faults an iteration can meet:
\*   pre          an exception before env.step has changed the space
\*   post_commit  an exception after the commit, before the outcome is recorded
\*   post_record  an exception after box_results.append of the packed outcome
\*   commit_fail  env.step reports failure (continuous mode only)
FaultAllowed(f, c) ==
    /\ faults < MaxFaults
    /\ box_index < FaultWindow
    /\ f \in {"post_commit", "post_record"} => c.found
    /\ f = "commit_fail" => c.found /\ ~is_discrete

\* one iteration of "while not done and box_index < max_iterations"
LoopIteration ==
    /\ pc = "loop"
    /\ ~done
    /\ box_index < MaxIter(session)
    /\ \E nb \in NextBoxChoices(session) :
       \E c \in Choices(heightMap, space_boxes, session, nb) :
       \E sp \in {ProbedSpace(heightMap, space_boxes, session, nb)} :
       \E f \in {"none"} \cup {k \in Exceptions \cup {"commit_fail"} : FaultAllowed(k, c)} :
          LET committed == c.found /\ f \in {"none", "post_commit", "post_record"}
              pb        == PlacedBox(sp.heightMap, session, c.dims, c.lx, c.ly)
              packed    == PackedRecord(box_index, pb)
              unpacked  == Unpacked(box_index, session)
          IN  /\ heightMap' = IF committed
                              THEN MapAfter(sp.heightMap, session, c.dims, c.lx, c.ly)
                              ELSE sp.heightMap
              /\ space_boxes' = IF committed THEN Append(sp.boxes, pb)
                                ELSE sp.boxes
              /\ box_results' =
                    IF f = "none" /\ c.found THEN Append(box_results, packed)
                    ELSE IF f = "post_record" THEN box_results \o <<packed, unpacked>>
                    ELSE IF f = "commit_fail"
                    THEN Append(box_results, FailedCommitOutcome(box_index, session, pb))
                    ELSE Append(box_results, unpacked)
              /\ packing_steps' =
                    IF f = "none" /\ c.found
                    THEN Append(packing_steps, PackingStep(box_index, pb))
                    ELSE packing_steps
              /\ done' = IF f = "none" /\ ~c.found THEN DoneAfterNone ELSE done
              /\ box_index' = IF f \in Exceptions THEN AfterException(box_index)
                              ELSE box_index + 1
              /\ faults' = IF f = "none" THEN faults ELSE faults + 1
              /\ hist' = [hist EXCEPT
                    !.iterations = @ + 1,
                    !.attempted = @ \cup {box_index},
                    !.raised = IF f \in Exceptions THEN @ \cup {<<box_index, f>>} ELSE @,
                    !.none_at = IF f = "none" /\ ~c.found THEN @ \cup {box_index} ELSE @,
                    !.commit_failed = IF f = "commit_fail" THEN @ \cup {box_index} ELSE @,
                    !.branches = @ \cup {SearchMode(session, is_discrete)},
                    !.in_order = @ /\ nb = session.boxes[box_index + 1]]
    /\ UNCHANGED <<session, PACKING_AVAILABLE, pc, env, is_discrete, results,
                   stored>>
    /\ UNCHANGED webvars

\* after the loop: the remaining boxes as unpacked, the utilization query and
\* the result.  raise: get_ratio() raises, which the outer except catches
Finish ==
    /\ pc = "loop"
    /\ (done \/ box_index >= MaxIter(session))
    /\ \E raise \in BOOLEAN :
        LET n    == Len(session.boxes)
            rest == [j \in 1 .. (n - box_index) |-> Unpacked(box_index + j - 1, session)]
            all  == box_results \o rest
        IN  /\ box_results' = all
            /\ box_index' = Max(box_index, n)
            /\ IF raise
               THEN /\ results' = EscapedResults(session)
                    /\ hist' = [hist EXCEPT !.escaped = TRUE]
               ELSE /\ results' =
                        [kind |-> "search",
                         utilization_rate |-> get_ratio(space_boxes, session),
                         packed_boxes_count |->
                            Cardinality({j \in 1..Len(all) : all[j].is_packed}),
                         boxes |-> all,
                         packing_steps |-> packing_steps]
                    /\ UNCHANGED hist
    /\ pc' = "done"
    /\ UNCHANGED <<session, PACKING_AVAILABLE, env, is_discrete, heightMap,
                   space_boxes, packing_steps, done, stored, faults>>
    /\ UNCHANGED webvars

\* run_packing_simulation after engine.run_simulation(): "for box_result in
\* results['boxes']": the row of the outcome's id gets the outcome's is_packed
\* and, for a packed outcome only, its dimensions and position; box.save()
WriteBack ==
    /\ pc = "done"
    /\ stored' = RowsAfter(stored, results.boxes)
    /\ pc' = "written"
    /\ UNCHANGED <<session, PACKING_AVAILABLE, env, is_discrete, heightMap,
                   space_boxes, box_results, packing_steps, box_index, done,
                   results, faults, hist>>
    /\ UNCHANGED webvars

\* a second PackingEngine(session).run_simulation() on the same, unchanged
\* session (before anything is written back): a new engine, a new environment.
\* The first run's result is remembered in hist.first.  Only a first run
\* of the corner_height algorithm without faults is repeated, and the second
\* run meets none.
Rerun ==
    /\ pc = "done"
    /\ hist.run = 1
    /\ faults = 0
    /\ session.algorithm = "corner_height"
    /\ pc' = "start"
    /\ env' = FALSE
    /\ is_discrete' = TRUE
    /\ heightMap' = <<>>
    /\ space_boxes' = <<>>
    /\ box_results' = <<>>
    /\ packing_steps' = <<>>
    /\ box_index' = 0
    /\ done' = FALSE
    /\ results' = NoResults
    /\ faults' = MaxFaults
    /\ hist' = [InitHist EXCEPT !.run = 2, !.first = results]
    /\ UNCHANGED <<session, PACKING_AVAILABLE, stored>>
    /\ UNCHANGED webvars

\* env.reset() on an environment whose episode is over, as the episode loop
\* of test_pack_discrete.corner_height does ("if done: ... env.reset()"),
\* possibly several times in a row.  That loop has no exception handling:
\* only an episode that met no fault is followed by a reset
EpisodeReset ==
    /\ pc = "written"
    /\ env
    /\ hist.reset_calls > 0
    /\ hist.raised = {} /\ hist.commit_failed = {} /\ ~hist.escaped
    /\ hist.resets < MaxResets
    /\ heightMap' = reset(heightMap, space_boxes, session).heightMap
    /\ space_boxes' = reset(heightMap, space_boxes, session).boxes
    /\ hist' = [hist EXCEPT !.resets = @ + 1]
    /\ UNCHANGED <<session, PACKING_AVAILABLE, pc, env, is_discrete, box_results,
                   packing_steps, box_index, done, results, stored, faults>>
    /\ UNCHANGED webvars

Next ==
    \/ SetupEnvironment \/ StartRun \/ LoopIteration \/ Finish \/ WriteBack
    \/ Rerun \/ EpisodeReset

Spec == Init /\ [][Next]_vars

----------------------------------------------------------------------------
(* The web tier's specification: requests and background threads.  A      *)
(* thread's engine run is reduced to what it does to the shared state: one *)
(* np.random.randint(0, len(candidates)) per box of a random-algorithm run *)

\* the engine variables are not used by the web tier
EngineIdle ==
    /\ session = MkSession(<<2, 2, 4>>, 1, "random", [i \in 1..WebBoxes |-> UnitBox])
    /\ PACKING_AVAILABLE = TRUE
    /\ pc = "start"
    /\ env = FALSE
    /\ is_discrete = TRUE
    /\ heightMap = <<>>
    /\ space_boxes = <<>>
    /\ box_results = <<>>
    /\ packing_steps = <<>>
    /\ box_index = 0
    /\ done = FALSE
    /\ results = NoResults
    /\ stored = NewRows(session)
    /\ faults = 0
    /\ hist = InitHist

InitWeb ==
    /\ EngineIdle
    /\ web = NewWeb
    /\ threads = <<>>
    /\ rng = Seeded(OsSeed)

\* run_packing_simulation, first statement: the thread reads its session
LoadSession ==
    /\ \E i \in 1..Len(threads) :
          /\ threads[i].pc = "load"
          /\ threads' = [threads EXCEPT ![i].pc = "pack",
                                         ![i].local = web.is_completed[threads[i].sid]]
    /\ UNCHANGED <<web, rng>>
    /\ UNCHANGED engvars

\* start_packing (POST): a completed session is redirected to its results,
\* otherwise a background thread is started
StartPacking ==
    /\ web.requests < MaxRequests
    /\ \E sid \in WebSessions :
          /\ web' = [web EXCEPT !.requests = @ + 1]
          /\ threads' = IF web.is_completed[sid] THEN threads
                        ELSE Append(threads, NewThread(sid, rng))
    /\ UNCHANGED rng
    /\ UNCHANGED engvars

\* one box of the thread's random-algorithm run:
\* idx = np.random.randint(0, len(candidates))
PackStep ==
    /\ \E i \in 1..Len(threads) :
          LET th == threads[i]
          IN  /\ th.pc = "pack"
              /\ threads' = [threads EXCEPT ![i] =
                    [th EXCEPT
                       !.choices = Append(@, randint(rng, WebCandidates)),
                       !.alone_choices = Append(@, randint(th.alone, WebCandidates)),
                       !.alone = Drawn(@, 1),
                       !.k = IF th.k + 1 = WebBoxes THEN 0 ELSE th.k + 1,
                       !.pc = IF th.k + 1 = WebBoxes THEN "display" ELSE "pack"]]
              /\ rng' = Drawn(rng, 1)
    /\ UNCHANGED web
    /\ UNCHANGED engvars

\* ensure_virtual_display: the test "_virtual_display is None"
EnsureDisplay ==
    /\ \E i \in 1..Len(threads) :
          /\ threads[i].pc = "display"
          /\ threads' = [threads EXCEPT ![i].pc =
                IF web.virtual_display THEN "export" ELSE "display_start"]
    /\ UNCHANGED <<web, rng>>
    /\ UNCHANGED engvars

\* ensure_virtual_display: _virtual_display = Display(...); .start()
StartDisplay ==
    /\ \E i \in 1..Len(threads) :
          /\ threads[i].pc = "display_start"
          /\ threads' = [threads EXCEPT ![i].pc = "export"]
    /\ web' = [web EXCEPT !.virtual_display = TRUE, !.displays = @ + 1]
    /\ UNCHANGED rng
    /\ UNCHANGED engvars

\* generate_web_scene, one box: _generate_color(index) seeds the global
\* generator and draws r, g, b from it
ExportStep ==
    /\ \E i \in 1..Len(threads) :
          LET th == threads[i]
          IN  /\ th.pc = "export"
              /\ threads' = [threads EXCEPT ![i] =
                    [th EXCEPT
                       !.alone = Drawn(Seeded(ColorSeed(th.k)), 3),
                       !.k = IF th.k + 1 = WebBoxes THEN 0 ELSE th.k + 1,
                       !.pc = IF th.k + 1 = WebBoxes THEN "save" ELSE "export"]]
              /\ rng' = Drawn(Seeded(ColorSeed(th.k)), 3)
    /\ UNCHANGED web
    /\ UNCHANGED engvars

\* session.scene_data.save(scene_filename, ContentFile(...)): the file is
\* stored and the thread's session object is saved, every field of it, its
\* is_completed included (simulation_video.save and simulation_image.save do
\* the same)
SaveScene ==
    /\ \E i \in 1..Len(threads) :
          /\ threads[i].pc = "save"
          /\ threads' = [threads EXCEPT ![i].pc = "complete"]
          /\ web' = [web EXCEPT !.is_completed[threads[i].sid] = threads[i].local]
    /\ UNCHANGED rng
    /\ UNCHANGED engvars

\* generate_web_scene raises or returns nothing: the inner except prints the
\* error, nothing is saved
SceneFails ==
    /\ \E i \in 1..Len(threads) :
          /\ threads[i].pc \in {"export", "save"}
          /\ threads' = [threads EXCEPT ![i].pc = "complete", ![i].k = 0]
    /\ UNCHANGED <<web, rng>>
    /\ UNCHANGED engvars

\* the simulation, the write-back or the rendering raises: the outer except
Fail ==
    /\ \E i \in 1..Len(threads) :
          /\ threads[i].pc \in {"pack", "display", "display_start"}
          /\ threads' = [threads EXCEPT ![i].pc = "failed", ![i].k = 0]
    /\ UNCHANGED <<web, rng>>
    /\ UNCHANGED engvars

\* the outer except: the session is read again, is_completed = True, save()
HandleFailure ==
    /\ \E i \in 1..Len(threads) :
          /\ threads[i].pc = "failed"
          /\ threads' = [threads EXCEPT ![i].pc = "done", ![i].local = TRUE]
          /\ web' = [web EXCEPT !.is_completed[threads[i].sid] = TRUE]
    /\ UNCHANGED rng
    /\ UNCHANGED engvars

\* run_packing_simulation: session.is_completed = True; session.save()
Complete ==
    /\ \E i \in 1..Len(threads) :
          /\ threads[i].pc = "complete"
          /\ threads' = [threads EXCEPT ![i].pc = "done", ![i].local = TRUE]
          /\ web' = [web EXCEPT !.is_completed[threads[i].sid] = TRUE]
    /\ UNCHANGED rng
    /\ UNCHANGED engvars

\* the results view: a session that is not completed is redirected to its
\* progress page, a completed one gets its results rendered
ResultsView ==
    /\ \E sid \in WebSessions :
          web' = IF web.is_completed[sid]
                 THEN [web EXCEPT !.served = @ \cup {sid}]
                 ELSE [web EXCEPT !.redirected = @ \cup {sid}]
    /\ UNCHANGED <<threads, rng>>
    /\ UNCHANGED engvars

\* a step of a background thread other than a failure
ThreadStep ==
    \/ LoadSession \/ PackStep \/ EnsureDisplay \/ StartDisplay \/ ExportStep
    \/ SaveScene \/ Complete \/ HandleFailure

NextWeb ==
    \/ StartPacking \/ ThreadStep \/ SceneFails \/ Fail \/ ResultsView

SpecWeb == InitWeb /\ [][NextWeb]_vars

\* a started thread is scheduled until it returns: a step it can take is
\* eventually taken
SpecWebFair == SpecWeb /\ WF_vars(ThreadStep)

----------------------------------------------------------------------------
(* Observations shared by the claims *)

\* the run has returned
Returned == pc \in {"done", "written"}

\* the packing loop has run to its end (its records are complete)
LoopFinished == Returned /\ hist.reset_calls > 0

PalletDims(s) == <<s.pallet_width, s.pallet_length, s.pallet_height>>
PalletVolume(s) == s.pallet_width * s.pallet_length * s.pallet_height

\* [position, position + dimensions) of two outcomes intersect on all three axes
Intersect(r1, r2) ==
    \A k \in 1..3 :
        /\ r1.position[k] < r2.position[k] + r2.dimensions[k]
        /\ r2.position[k] < r1.position[k] + r1.dimensions[k]

PackedVolume(recs) ==
    SumSeq([j \in 1..Len(recs) |->
              IF recs[j].is_packed THEN Volume(recs[j].dimensions) ELSE 0])

\* the orientations a box of native extents b may be recorded with
AllowedOrientations(b, setting) ==
    IF setting = 2 THEN {SpecOrient(b, k) : k \in 0..5} ELSE {b}

----------------------------------------------------------------------------
(* C1 *)

\* C1: in every returned result (search or fallback) no two outcomes recorded
\* is_packed = TRUE have volumes [position, position + dimensions) that
\* intersect on all three axes.
C1_NoOverlap ==
    Returned =>
        \A i, j \in 1..Len(results.boxes) :
            (i < j /\ results.boxes[i].is_packed /\ results.boxes[j].is_packed)
                => ~Intersect(results.boxes[i], results.boxes[j])

(* C2 *)

\* C2: in every returned result every outcome recorded is_packed = TRUE has
\* position >= 0 and position + dimensions <= the pallet's extent on every axis.
C2_WithinBounds ==
    Returned =>
        \A j \in 1..Len(results.boxes) :
            results.boxes[j].is_packed =>
                \A k \in 1..3 :
                    /\ results.boxes[j].position[k] >= 0
                    /\ results.boxes[j].position[k] + results.boxes[j].dimensions[k]
                          <= PalletDims(session)[k]

(* C3 *)

\* C3: in every returned result the dimensions of an outcome recorded
\* is_packed = TRUE are an allowed orientation of the native extents of the
\* session box whose id the outcome carries: one of the 6 permutations under
\* rotation_setting 2, the native extents themselves under rotation_setting 1.
C3_OrientationOfOwnBox ==
    Returned =>
        \A j \in 1..Len(results.boxes) :
            results.boxes[j].is_packed =>
                results.boxes[j].dimensions \in
                    AllowedOrientations(session.boxes[results.boxes[j].id],
                                        session.rotation_setting)

(* C4 *)

\* C4: in every returned result 0 <= utilization_rate <= 1 and
\* utilization_rate = (sum of the volumes of the outcomes recorded
\* is_packed = TRUE) / (pallet_width * pallet_length * pallet_height).
C4_UtilizationIsPackedVolume ==
    Returned =>
        LET u == results.utilization_rate
        IN  /\ u.den > 0
            /\ 0 <= u.num
            /\ u.num <= u.den
            /\ u.num * PalletVolume(session) = PackedVolume(results.boxes) * u.den

(* C5 *)

\* C5: the packing loop runs at most min(box_count, 50) iterations, and every
\* iteration, also one that raises an exception, advances box_index by one
\* (box_index equals the number of iterations made so far).
C5_BoundedIterations ==
    /\ hist.iterations <= Min(Len(session.boxes), MaxIterations)
    /\ pc = "loop" => box_index = hist.iterations

\* a run of more than 50 boxes that stopped at the ceiling and met an exception
C5_Witness ==
    /\ LoopFinished
    /\ Len(session.boxes) > MaxIterations
    /\ hist.iterations = MaxIterations
    /\ hist.raised # {}

(* C6 *)

\* C6: in a session of more than 50 boxes only boxes at positions 0..49 are
\* ever given to a search or commit, and when the loop has finished every box
\* at position >= 50 has an outcome, and only outcomes with is_packed = FALSE
\* and no position, also when the pallet still has room.
C6_IterationCeiling ==
    Len(session.boxes) > MaxIterations =>
        /\ \A i \in hist.attempted : i < MaxIterations
        /\ Len(space_boxes) <= MaxIterations
        /\ \A j \in 1..Len(box_results) :
              box_results[j].id > BoxId(MaxIterations - 1) =>
                  ~box_results[j].is_packed /\ box_results[j].position = <<>>
        /\ LoopFinished =>
              \A i \in MaxIterations .. Len(session.boxes) - 1 :
                  \E j \in 1..Len(box_results) : box_results[j].id = BoxId(i)

\* 50 boxes packed, the 51st left out although it would fit on top
C6_Witness ==
    /\ Returned
    /\ results.kind = "search"
    /\ Len(session.boxes) > MaxIterations
    /\ results.packed_boxes_count = MaxIterations
    /\ Feasible(heightMap, session, session.boxes[MaxIterations + 1], 0, 0)

(* C7 *)

\* C7: once the heuristic has found no feasible candidate for box k, box k has
\* only unpacked outcomes, no box after k is ever searched or committed, no
\* box after k is ever recorded packed, and when the loop has finished every
\* box after k has an outcome.
C7_NoneIsTerminal ==
    \A k \in hist.none_at :
        /\ \A i \in hist.attempted : i <= k
        /\ \E j \in 1..Len(box_results) : box_results[j].id = BoxId(k)
        /\ \A j \in 1..Len(box_results) :
              box_results[j].id >= BoxId(k) =>
                  ~box_results[j].is_packed /\ box_results[j].position = <<>>
        /\ LoopFinished =>
              \A i \in k + 1 .. Len(session.boxes) - 1 :
                  \E j \in 1..Len(box_results) : box_results[j].id = BoxId(i)

\* a box was packed, the next one was infeasible, and a later box that would
\* have fitted alone was left unpacked
C7_Witness ==
    /\ Returned
    /\ results.kind = "search"
    /\ \E k \in hist.none_at :
          /\ k > 0
          /\ k + 1 < Len(session.boxes)
          /\ Feasible(heightMap, session, session.boxes[k + 2], 0, 0)
    /\ results.packed_boxes_count > 0

(* C8 *)

\* C8: when an exception was raised while box i was processed (at any point
\* of the iteration), box i has an outcome and only unpacked outcomes, the
\* loop is at box i + 1 with done not set, and the run returns a result.
C8_ExceptionLeavesBoxUnpacked ==
    \A e \in hist.raised :
        /\ \E j \in 1..Len(box_results) : box_results[j].id = BoxId(e[1])
        /\ \A j \in 1..Len(box_results) :
              box_results[j].id = BoxId(e[1]) => ~box_results[j].is_packed
        /\ (pc = "loop" /\ box_index = e[1] + 1) => ~done
        /\ Returned => results.kind # "none"

(* C9 *)

\* C9 as stated: the returned result is the fallback result if and only if
\* setup_environment failed.
C9_FallbackOnlyOnSetupFailure ==
    Returned => (results.kind = "fallback" <=> hist.setup = "failed")

\* C9 amended: the returned result is the fallback result if and only if
\* setup_environment failed or an exception escaped the per-box handling of
\* the search (raised by env.reset before the loop or by the utilization query
\* after it); an exception raised while a box is processed never replaces the
\* search's result.
C9_FallbackOnSetupFailureOrEscape ==
    Returned =>
        /\ results.kind \in {"fallback", "search"}
        /\ results.kind = "fallback" <=> (hist.setup = "failed" \/ hist.escaped)
        /\ (hist.setup = "ok" /\ ~hist.escaped) =>
              /\ results.boxes = box_results
              /\ results.packing_steps = packing_steps

\* setup succeeded, boxes were packed, the utilization query raised: fallback
C9_Witness ==
    /\ Returned
    /\ hist.setup = "ok"
    /\ hist.escaped
    /\ Len(space_boxes) > 0
    /\ results.kind = "fallback"

(* C10 *)

\* C10: for a configuration with a pallet volume below the minimum or a box
\* with a zero or negative extent the search is never started (no reset, no
\* search, no commit) and the returned result is the fallback result.
C10_InvalidConfigurationRefused ==
    ~ValidConfiguration(session) =>
        /\ hist.reset_calls = 0
        /\ hist.attempted = {}
        /\ space_boxes = <<>>
        /\ Returned => results.kind = "fallback"

(* C11 *)

\* the shape of a fallback result whose first k boxes are packed: outcome j
\* (0-based i = j - 1) carries the id and the native extents of box i; for
\* i < k it is packed at (i mod 3, i div 3, 0), otherwise unpacked without a
\* position; packed_boxes_count counts the packed outcomes; no packing steps
FallbackShape(k) ==
    /\ Len(results.boxes) = Len(session.boxes)
    /\ \A j \in 1..Len(results.boxes) :
          LET r == results.boxes[j]
          IN  /\ r.id = BoxId(j - 1)
              /\ r.dimensions = session.boxes[j]
              /\ r.is_packed <=> j - 1 < k
              /\ r.position = IF j - 1 < k
                              THEN <<2 * ((j - 1) % 3), 2 * ((j - 1) \div 3), 0>>
                              ELSE <<>>
    /\ results.packed_boxes_count =
          Cardinality({j \in 1..Len(results.boxes) : results.boxes[j].is_packed})
    /\ results.packing_steps = <<>>

\* C11 as stated: in the fallback result of a session of n boxes exactly the
\* first floor(n / 2) boxes are recorded packed, box i at (i mod 3, i div 3, 0)
\* with its native dimensions, the others unpacked without position;
\* packed_boxes_count is the number of packed outcomes, packing_steps is empty.
C11_FallbackFirstHalf ==
    (Returned /\ results.kind = "fallback") =>
        FallbackShape(Len(session.boxes) \div 2)

\* C11 amended: the same with min(n, max(1, floor(n / 2))) packed boxes: a
\* session of one box has that box packed.
C11_FallbackFirstBoxes ==
    (Returned /\ results.kind = "fallback") =>
        FallbackShape(Min(Len(session.boxes), Max(1, Len(session.boxes) \div 2)))

\* the fallback result of a one-box session: the box is recorded packed
C11_Witness ==
    /\ Returned
    /\ results.kind = "fallback"
    /\ Len(session.boxes) = 1
    /\ results.boxes[1].is_packed
    /\ results.packed_boxes_count = 1

(* C12 *)

\* C12: after a successful setup_environment is_discrete is TRUE if and only
\* if the pallet's width, length and height and every box's x, y and z are
\* integral, and every mode-dependent branch the run takes afterwards is the
\* branch of that mode.
C12_ModeDecidedOnce ==
    hist.setup = "ok" =>
        /\ is_discrete <=>
              /\ \A k \in 1..3 : IsInteger(PalletDims(session)[k])
              /\ \A i \in 1..Len(session.boxes) :
                    \A k \in 1..3 : IsInteger(session.boxes[i][k])
        /\ \A b \in hist.branches :
              b = (IF is_discrete THEN "discrete" ELSE "continuous")

(* C13 *)

\* C13: in every outcome of every returned result (search or fallback)
\* is_packed is TRUE if and only if the outcome has a position; and once the
\* outcomes have been written back every stored BoxData row has is_packed
\* TRUE if and only if it has a position.
C13_PackedIffPosition ==
    /\ Returned =>
          \A j \in 1..Len(results.boxes) :
              results.boxes[j].is_packed <=> results.boxes[j].position # <<>>
    /\ pc = "written" =>
          \A i \in 1..Len(stored) :
              stored[i].is_packed <=> stored[i].position # <<>>

(* C14 *)

\* C14: two runs of the engine on the same session with the corner_height
\* algorithm, each from a fresh reset and both ending with the search's
\* result, return identical results (outcomes, positions, dimensions,
\* utilization_rate, packing_steps).
C14_CornerHeightDeterministic ==
    (/\ Returned
     /\ hist.run = 2
     /\ session.algorithm = "corner_height"
     /\ results.kind = "search"
     /\ hist.first.kind = "search") => results = hist.first

(* C15 *)

\* C15: after reset(), and again after a second reset() in a row, the height
\* map is all zero, no box is committed and the utilization ratio is 0,
\* however many boxes were committed before.
C15_ResetIdempotent ==
    (hist.resets >= 1 \/ (pc = "loop" /\ hist.iterations = 0)) =>
        /\ \A c \in Cells(session) : heightMap[c] = 0
        /\ space_boxes = <<>>
        /\ get_ratio(space_boxes, session).num = 0

\* two resets in a row of a space in which boxes had been committed
C15_Witness ==
    /\ hist.resets = 2
    /\ results.kind = "search"
    /\ results.packed_boxes_count > 0
    /\ heightMap = ZeroMap(session)

(* C16 *)

\* C16: a thread of one session makes the random choices it would make if it
\* were the only user of the generator, whatever threads of other sessions do
\* meanwhile (their packing, their scene export).
C16_NoSharedState ==
    \A i \in 1..Len(threads) :
        (\A j \in 1..Len(threads) : j # i => threads[j].sid # threads[i].sid)
            => threads[i].choices = threads[i].alone_choices

(* C17 *)

\* C17: for every session at most one simulation thread is ever started,
\* whether a second start request arrives after completion or while the
\* first run is in progress.
C17_RunAtMostOnce ==
    \A sid \in WebSessions :
        Cardinality({i \in 1..Len(threads) : threads[i].sid = sid}) <= 1

(* C18 *)

\* a run that ended with the search's result and met no exception and no
\* failed commit
CleanSearch ==
    /\ Returned
    /\ results.kind = "search"
    /\ hist.raised = {}
    /\ hist.commit_failed = {}

\* C18: for container (10,10,10) and boxes (2,2,2), (3,3,3), (11,1,1) in that
\* order, corner_height, no rotation, the search's result has
\* packed_boxes_count = 2, the first box packed at (0,0,0), the second box
\* packed, the third box unpacked without position.
C18_ExampleScenario ==
    (session = ExampleSession /\ CleanSearch) =>
        /\ results.packed_boxes_count = 2
        /\ Len(results.boxes) = 3
        /\ results.boxes[1].id = BoxId(0)
        /\ results.boxes[1].is_packed
        /\ results.boxes[1].position = <<0, 0, 0>>
        /\ results.boxes[2].id = BoxId(1)
        /\ results.boxes[2].is_packed
        /\ results.boxes[3].id = BoxId(2)
        /\ ~results.boxes[3].is_packed
        /\ results.boxes[3].position = <<>>

(* C19 *)

\* C19: every result of a search run holds exactly one outcome per session
\* box, in the boxes' order: outcome j is the outcome of the j-th box, no box
\* is missing and no box id appears twice, also after an exception or an
\* early stop of the loop.
C19_OneOutcomePerBox ==
    (Returned /\ results.kind = "search") =>
        /\ Len(results.boxes) = Len(session.boxes)
        /\ \A j \in 1..Len(results.boxes) : results.boxes[j].id = BoxId(j - 1)

(* C20 *)

\* the feasible candidates of a box: the pairs <<i, candidate>> of a position
\* i of corner_positions whose virtual drop is feasible and its extents,
\* footprint origin and score
FeasibleCandidates(hm, boxes, s, nb) ==
    LET cps == corner_positions(hm, boxes, s, nb)
    IN  {e \in {<<i, Scanned(cps, i, hm, s)>> : i \in 1..Len(cps)} : e[2].feasible}

C21_RandomBranchFollowsMode ==
    (session.algorithm = "random" /\ hist.setup = "ok") =>
        /\ "continuous" \in hist.branches => ~is_discrete
        /\ "discrete" \in hist.branches => is_discrete
        /\ (PalletIsInteger(session) /\ ~ItemsAreInteger(session))
              => "discrete" \notin hist.branches

(* C22 *)

\* the candidate set the specification gives for discrete mode: every allowed
\* orientation d of the box at every integral origin with
\* 0 <= lx <= width - d.x and 0 <= ly <= length - d.y whose virtual drop is
\* feasible
SpecDiscreteCandidates(hm, s, nb) ==
    {t \in AllowedOrientations(nb, s.rotation_setting)
             \X (0 .. s.pallet_width) \X (0 .. s.pallet_length) :
        /\ IsInteger(t[2]) /\ IsInteger(t[3])
        /\ t[2] <= s.pallet_width - t[1][1]
        /\ t[3] <= s.pallet_length - t[1][2]
        /\ drop_box_virtual(hm, s, t[1], t[2], t[3]).feasible}

\* C22: in every state of a random run in discrete mode, for every box the
\* environment can offer, the candidates of the search are exactly the
\* feasible (orientation, integral origin) pairs with the origin inside
\* [0, width - x] x [0, length - y] for the orientation's own extents, and the
\* search finds no placement only if there is no such pair.
C22_DiscreteCandidatesExhaustive ==
    (pc = "loop" /\ session.algorithm = "random" /\ is_discrete) =>
        \A nb \in NextBoxChoices(session) :
            /\ {<<c.dims, c.lx, c.ly>> : c \in DiscreteCandidates(heightMap, session, nb)}
                  = SpecDiscreteCandidates(heightMap, session, nb)
            /\ NoPlacement \in RandomChoices(heightMap, session, nb)
                  => SpecDiscreteCandidates(heightMap, session, nb) = {}

(* C23 *)

\* C23: in every state of a random run, for every box the environment can
\* offer and every rotation index k the search tries, the extents tried for k
\* are the k-th of (x,y,z), (y,x,z), (z,x,y), (z,y,x), (x,z,y), (y,z,x).
C23_OrientationOrder ==
    (pc = "loop" /\ session.algorithm = "random") =>
        \A nb \in NextBoxChoices(session) :
            \A k \in 0 .. Orientation(session) - 1 :
                Rot(nb, k) = SpecOrient(nb, k)

(* C24 *)

\* the footprint of extents d fits the container's footprint (an exact fit
\* included)
FootprintFits(s, d) == d[1] <= s.pallet_width /\ d[2] <= s.pallet_length

\* C24: in every state of a random run on the sampling branch, for every box
\* the environment can offer and every rotation: if the rotated footprint fits
\* the container (exact fit included) positions are drawn for it, each with
\* 0 <= lx <= width - x and 0 <= ly <= length - y; if it does not fit nothing
\* is drawn for it.
C24_SamplingCoversFittingOrientations ==
    (pc = "loop" /\ session.algorithm = "random" /\ ~BinSizeIsInt(session)) =>
        \A nb \in NextBoxChoices(session) :
            \A rot \in 0 .. Orientation(session) - 1 :
                LET d == Rot(nb, rot)
                    P == SamplePoints(session, nb, rot)
                IN  /\ FootprintFits(session, d) =>
                          /\ P # {}
                          /\ \A q \in P :
                                /\ 0 <= q[1] /\ q[1] <= session.pallet_width - d[1]
                                /\ 0 <= q[2] /\ q[2] <= session.pallet_length - d[2]
                    /\ ~FootprintFits(session, d) => P = {}

(* C25 *)

\* C25: every step of the packing loop, whatever virtual drops its search
\* made (feasible or not), either leaves the height map and the committed
\* boxes as they were or is a commit: one box is appended, resting at the
\* maximum height under its footprint in the height map from before the step,
\* and the new height map is that map with the box put on it.
C25_VirtualDropsLeaveSpace ==
    [][(pc = "loop" /\ pc' = "loop") =>
          \/ heightMap' = heightMap /\ space_boxes' = space_boxes
          \/ /\ Len(space_boxes') = Len(space_boxes) + 1
             /\ SubSeq(space_boxes', 1, Len(space_boxes)) = space_boxes
             /\ LET pb == space_boxes'[Len(space_boxes')]
                    d  == <<pb.x, pb.y, pb.z>>
                IN  /\ pb.lz = RestHeight(heightMap, session, d, pb.lx, pb.ly)
                    /\ heightMap' = MapAfter(heightMap, session, d, pb.lx, pb.ly)]_vars

\* a search that made virtual drops on a space holding a box was followed by
\* no commit: its iteration raised before env.step, or found every drop
\* infeasible
C25_Witness ==
    /\ pc = "loop"
    /\ space_boxes # <<>>
    /\ \/ \E r \in hist.raised : r[1] > 0 /\ r[2] = "pre"
       \/ \E i \in hist.none_at : i > 0

(* C26 *)

\* C26: a step of the loop in which the commit reports failure leaves the
\* height map and the committed boxes unchanged, appends one outcome for the
\* current box (unpacked, no position), adds no packing step, and goes on to
\* the next box without ending the loop.
C26_FailedCommitLeavesSpace ==
    [][(pc = "loop" /\ hist'.commit_failed # hist.commit_failed) =>
          /\ heightMap' = heightMap
          /\ space_boxes' = space_boxes
          /\ box_results' = Append(box_results, Unpacked(box_index, session))
          /\ ~box_results'[Len(box_results')].is_packed
          /\ box_results'[Len(box_results')].position = <<>>
          /\ packing_steps' = packing_steps
          /\ box_index' = box_index + 1
          /\ done' = done
          /\ pc' = "loop"]_vars

\* a commit failed for one box and a later box was packed
C26_Witness ==
    \E i \in hist.commit_failed :
        \E j \in 1..Len(box_results) :
            box_results[j].id > BoxId(i) /\ box_results[j].is_packed

(* C27 *)

\* C27: in every step of the loop that commits a box, every cell of the
\* height map is at least what it was, the cells under the box's footprint
\* become max(previous value, box.lz + box.z), the other cells keep their
\* value, and box.lz is the maximum height under the footprint before the
\* step.
C27_HeightMapMonotonic ==
    [][(pc = "loop" /\ Len(space_boxes') = Len(space_boxes) + 1) =>
          LET pb == space_boxes'[Len(space_boxes')]
              fp == Footprint(session, <<pb.x, pb.y, pb.z>>, pb.lx, pb.ly)
          IN  /\ \A c \in Cells(session) : heightMap'[c] >= heightMap[c]
              /\ \A c \in fp : heightMap'[c] = Max(heightMap[c], pb.lz + pb.z)
              /\ \A c \in Cells(session) \ fp : heightMap'[c] = heightMap[c]
              /\ pb.lz = MaxOver({heightMap[c] : c \in fp})]_vars

\* a box has been committed on top of another one
C27_Witness ==
    /\ pc = "loop"
    /\ \E i \in 1..Len(space_boxes) : space_boxes[i].lz > 0

(* C28 *)

\* C28: in every result of a search run the k-th packing step (0-based) has
\* step = k, also when an earlier box was recorded unpacked after a failed
\* commit or an exception.
C28_StepIsOrdinal ==
    (Returned /\ results.kind = "search") =>
        \A k \in 1..Len(results.packing_steps) :
            results.packing_steps[k].step = k - 1

(* C29 *)

\* C29: when a search run returns its result, packed_boxes_count is the number
\* of outcomes with is_packed = TRUE, the number of packing steps and the
\* number of boxes committed in the space, and every packing step has the
\* box id, position and dimensions of a packed outcome of the result.
C29_CountsAgree ==
    (pc = "done" /\ results.kind = "search") =>
        /\ results.packed_boxes_count =
              Cardinality({j \in 1..Len(results.boxes) : results.boxes[j].is_packed})
        /\ results.packed_boxes_count = Len(results.packing_steps)
        /\ results.packed_boxes_count = Len(space_boxes)
        /\ \A k \in 1..Len(results.packing_steps) :
              \E j \in 1..Len(results.boxes) :
                  /\ results.boxes[j].is_packed
                  /\ results.boxes[j].id = results.packing_steps[k].box_id
                  /\ results.boxes[j].position = results.packing_steps[k].position
                  /\ results.boxes[j].dimensions = results.packing_steps[k].dimensions

(* C30 *)

\* a background simulation has been started for session sid
Started(sid) == \E i \in 1..Len(threads) : threads[i].sid = sid

\* once a simulation has been started for a session, the session eventually
\* has is_completed = TRUE
C30_EventuallyCompleted ==
    \A sid \in WebSessions : Started(sid) ~> web.is_completed[sid]

\* is_completed of a session never goes from TRUE to FALSE
C30_CompletedIsStable ==
    [][\A sid \in WebSessions :
          web.is_completed[sid] => web'.is_completed[sid]]_vars

\* the results view renders results only for a session that is completed, and
\* redirects only a session that is not
C30_ResultsOnlyWhenCompleted ==
    [][/\ \A sid \in web'.served \ web.served : web.is_completed[sid]
       /\ \A sid \in web'.redirected \ web.redirected : ~web.is_completed[sid]]_vars

\* C30: a session whose background simulation has been started eventually
\* reaches is_completed = TRUE, whether its simulation, rendering or scene
\* export succeeds or fails; is_completed never returns to FALSE; and the
\* results view serves results only when is_completed is TRUE.
C30_CompletionIsFinal ==
    /\ C30_EventuallyCompleted
    /\ C30_CompletedIsStable
    /\ C30_ResultsOnlyWhenCompleted

====
